---- MODULE Spec2Model ----
(***************************************************************************)
(* Model of neptune_optuna/impl/__init__.py: the NeptuneCallback that      *)
(* mirrors an Optuna study into a Neptune run, with the projection         *)
(* functions, the storage descriptor written by log_study and the reload   *)
(* done by load_study_from_run.                                            *)
(***************************************************************************)
EXTENDS Integers, Sequences, FiniteSets, TLC

\* Number of trials the engine delivers to the callback in one run.
MaxTrials == 3
\* Largest integer update frequency handed to the constructor.
MaxFreq == 2

(***************************************************************************)
(* Python values.  Every value is a record of one shape so that any two    *)
(* can be compared: t is the kind ("leaf", "dict", "list", "fstr",         *)
(* "absent"), v the token of a leaf, items the entries of a dict (key and  *)
(* value, in insertion order) or of a list (NoKey and value).              *)
(* A key is an int (kt = "int", n its value) or a str; a str key is the    *)
(* text kv, with the decimal digits of n filled in where kv = "" or kv     *)
(* holds a {} placeholder (n = NoNum: no number in the text).              *)
(***************************************************************************)
NoNum == 0 - 1
StrKey(s) == [kt |-> "str", kv |-> s, n |-> NoNum]
IntKey(i) == [kt |-> "int", kv |-> "", n |-> i]
PathKey(s, i) == [kt |-> "str", kv |-> s, n |-> i]
NoKey == [kt |-> "idx", kv |-> "", n |-> NoNum]

Leaf(s) == [t |-> "leaf", v |-> s, items |-> <<>>]
Absent == [t |-> "absent", v |-> "", items |-> <<>>]
Item(k, x) == [k |-> k, val |-> x]
Dict(its) == [t |-> "dict", v |-> "", items |-> its]
List(xs) == [t |-> "list", v |-> "", items |-> [j \in 1..Len(xs) |-> Item(NoKey, xs[j])]]
\* f'value: {v}| params: {p}': a str that embeds the two renderings.
Fmt(x, p) == [t |-> "fstr", v |-> x.v, items |-> p.items]

\* str(k) for a mapping key: an int becomes the str of its digits, a str is itself.
str(k) == IF k.kt = "int" THEN [kt |-> "str", kv |-> "", n |-> k.n] ELSE k

\* d[k] = x of a Python dict: an equal key keeps its position and takes the new
\* value, a new key goes to the end.
DictSet(its, k, x) ==
  IF \E j \in 1..Len(its) : its[j].k = k
    THEN [j \in 1..Len(its) |-> IF its[j].k = k THEN Item(k, x) ELSE its[j]]
    ELSE Append(its, Item(k, x))

RECURSIVE stringify_keys(_)
RECURSIVE StringifyItems(_, _)
\* The dict comprehension of stringify_keys, entry by entry.
StringifyItems(its, acc) ==
  IF its = <<>> THEN acc
  ELSE StringifyItems(Tail(its),
                      DictSet(acc, str(Head(its).k), stringify_keys(Head(its).val)))

stringify_keys(o) ==
  IF o.t = "dict" THEN Dict(StringifyItems(o.items, <<>>)) ELSE o

(***************************************************************************)
(* Trials and studies (the Optuna objects the callback reads).             *)
(***************************************************************************)
\* The outcome of a Python call: the value returned, or the exception raised.
Ok(x) == [exc |-> "", val |-> x]
Err(x) == [exc |-> x, val |-> Absent]

\* Parameter and intermediate-value mappings of the trials the engine delivers.
StrParams == <<Item(StrKey("x"), Leaf("0.5"))>>
MixedParams == <<Item(IntKey(1), Leaf("a")), Item(StrKey("x"), Leaf("0.5"))>>
NoSteps == <<>>
TwoSteps == <<Item(IntKey(0), Leaf("0.9")), Item(IntKey(1), Leaf("0.7"))>>

\* What the objective function produced for one trial.
TrialInputs ==
  { [value |-> 2, params |-> StrParams, steps |-> NoSteps],
    [value |-> 1, params |-> MixedParams, steps |-> TwoSteps] }

\* The FrozenTrial of ordinal id; a multi-objective study has two values per trial.
FrozenTrial(id, in, multi) ==
  [ _trial_id |-> id,
    values |-> IF multi THEN <<in.value, in.value>> ELSE <<in.value>>,
    params |-> Dict(in.params),
    distributions |->
      Dict([j \in 1..Len(in.params) |-> Item(in.params[j].k, Leaf("distribution"))]),
    intermediate_values |-> Dict(in.steps) ]

\* FrozenTrial.value: the single objective value; not available when the trial
\* carries several values.
TrialValue(trial) ==
  IF Len(trial.values) > 1 THEN Err("RuntimeError")
  ELSE Ok(Leaf(ToString(trial.values[1])))

TrialValues(trial) ==
  List([j \in 1..Len(trial.values) |-> Leaf(ToString(trial.values[j]))])

\* The eight trials/{id}/... entries both projections add for one trial.
TrialEntries(its, trial) ==
  LET id == trial._trial_id
      a == DictSet(its, PathKey("trials/{}/datetime_start", id), Leaf("datetime_start"))
      b == DictSet(a, PathKey("trials/{}/datetime_complete", id), Leaf("datetime_complete"))
      c == DictSet(b, PathKey("trials/{}/duration", id), Leaf("duration"))
      d == DictSet(c, PathKey("trials/{}/distributions", id), trial.distributions)
      e == DictSet(d, PathKey("trials/{}/intermediate_values", id), trial.intermediate_values)
      f == DictSet(e, PathKey("trials/{}/params", id), trial.params)
      g == DictSet(f, PathKey("trials/{}/value", id), TrialValue(trial).val)
  IN  DictSet(g, PathKey("trials/{}/values", id), TrialValues(trial))

\* list.append on the list stored under key k of a dict.
AppendTo(its, k, x) ==
  [j \in 1..Len(its) |->
     IF its[j].k = k
       THEN Item(k, [its[j].val EXCEPT !.items = Append(@, Item(NoKey, x))])
       ELSE its[j]]

RECURSIVE AllTrialsLoop(_, _)
AllTrialsLoop(trials, acc) ==
  IF trials = <<>> THEN Ok(Dict(acc))
  ELSE LET trial == Head(trials) IN
    IF TrialValue(trial).exc # "" THEN Err(TrialValue(trial).exc)
    ELSE LET a == AppendTo(acc, StrKey("values"), TrialValue(trial).val)
             b == AppendTo(a, StrKey("params"), trial.params)
             c == AppendTo(b, StrKey("values|params"),
                           Fmt(TrialValue(trial).val, trial.params))
         IN  AllTrialsLoop(Tail(trials), TrialEntries(c, trial))

log_all_trials(trials) ==
  AllTrialsLoop(trials, <<Item(StrKey("values"), List(<<>>)),
                          Item(StrKey("params"), List(<<>>)),
                          Item(StrKey("values|params"), List(<<>>))>>)

\* Study.best_trial of a minimising study: the first trial with the least value.
BestIndex(trials) ==
  CHOOSE j \in 1..Len(trials) :
    /\ \A m \in 1..Len(trials) : trials[j].values[1] <= trials[m].values[1]
    /\ \A m \in 1..(j - 1) : trials[m].values[1] > trials[j].values[1]

\* Study.best_trials: every trial no other trial improves on, in study order.
BestTrials(trials) ==
  SelectSeq(trials,
            LAMBDA tr : \A m \in 1..Len(trials) : tr.values[1] <= trials[m].values[1])

RECURSIVE BestTrialsLoop(_, _)
BestTrialsLoop(trials, acc) ==
  IF trials = <<>> THEN acc
  ELSE BestTrialsLoop(Tail(trials), TrialEntries(acc, Head(trials)))

\* Study.best_value and Study.best_params are not available on a multi-objective study.
log_best_trials(study) ==
  IF study.multi THEN Err("RuntimeError")
  ELSE LET best == study.trials[BestIndex(study.trials)]
           top == <<Item(StrKey("value"), TrialValue(best).val),
                    Item(StrKey("params"), best.params),
                    Item(StrKey("value|params"), Fmt(TrialValue(best).val, best.params))>>
       IN  Ok(Dict(BestTrialsLoop(BestTrials(study.trials), top)))

(***************************************************************************)
(* Constructor arguments: a Python value with its type.                    *)
(***************************************************************************)
PyInt(i) == [ty |-> "int", n |-> i, s |-> ""]
PyStr(x) == [ty |-> "str", n |-> 0, s |-> x]
PyBool(b) == [ty |-> "bool", n |-> IF b THEN 1 ELSE 0, s |-> ""]
PyNone == [ty |-> "NoneType", n |-> 0, s |-> ""]
PyFloat == [ty |-> "float", n |-> 0, s |-> ""]

\* bool(x) of an argument.
Truthy(x) ==
  CASE x.ty = "NoneType" -> FALSE
    [] x.ty = "str" -> x.s # ""
    [] OTHER -> x.n # 0

\* verify_type(name, value, types) passes.
verify_type(x, types) == x.ty \in types

PlotKinds ==
  <<"contour", "edf", "parallel_coordinate", "param_importances",
    "pareto_front", "slice", "intermediate_values", "optimization_history">>
PlotKindSet == {PlotKinds[j] : j \in 1..Len(PlotKinds)}

\* Values handed to the constructor.
FreqArgs ==
  {PyInt(i) : i \in (0 - 1)..MaxFreq}
    \cup {PyStr("never"), PyStr("last"), PyStr("daily"), PyNone, PyFloat}
BackendArgs == {PyStr("plotly"), PyStr("matplotlib"), PyStr("bokeh"), PyNone, PyInt(3)}
AllPlots == [k \in PlotKindSet |-> PyBool(TRUE)]
FlagArgs ==
  { AllPlots,
    [k \in PlotKindSet |-> IF k \in {"pareto_front", "slice"} THEN PyBool(TRUE) ELSE PyNone],
    [k \in PlotKindSet |-> PyBool(FALSE)],
    [k \in PlotKindSet |-> IF k = "edf" THEN PyStr("yes") ELSE PyBool(TRUE)] }

\* The fields of a callback before __init__ has run.
NoCallback ==
  [ _vis_backend |-> PyNone, _plots_update_freq |-> PyNone,
    _study_update_freq |-> PyNone, flags |-> [k \in PlotKindSet |-> PyNone] ]

\* The verify_type calls of __init__ all pass.  The run handle and the base
\* namespace are a neptune.Run and a str throughout.
InitVerifies(pf, sf, be, fl) ==
  /\ verify_type(pf, {"int", "str", "NoneType"})
  /\ verify_type(sf, {"int", "str", "NoneType"})
  /\ verify_type(be, {"str", "NoneType"})
  /\ \A k \in PlotKindSet : verify_type(fl[k], {"bool", "NoneType"})

(***************************************************************************)
(* The update policy.                                                      *)
(***************************************************************************)
\* Python's a % b for a >= 0 and b # 0: the result takes the sign of b.
PyMod(a, b) == IF b > 0 THEN a % b ELSE 0 - ((0 - a) % (0 - b))

\* The shared body of _should_log_plots and _should_log_study: Ok(TRUE/FALSE)
\* or the exception the modulo raises.
ShouldLog(freq, study, trial) ==
  IF freq = PyStr("never") THEN [exc |-> "", fire |-> FALSE]
  ELSE IF freq = PyStr("last") THEN [exc |-> "", fire |-> study._stop_flag]
  ELSE IF freq.ty # "int" THEN [exc |-> "TypeError", fire |-> FALSE]
  ELSE IF freq.n = 0 THEN [exc |-> "ZeroDivisionError", fire |-> FALSE]
  ELSE [exc |-> "", fire |-> PyMod(trial._trial_id, freq.n) = 0]

\* A variant of _should_log_plots that reads the study frequency.
PlotsGateUsesStudyFreq(self, study, trial) ==
  ShouldLog(self._study_update_freq, study, trial)

_should_log_plots(self, study, trial) ==
  ShouldLog(self._plots_update_freq, study, trial)

_should_log_study(self, study, trial) ==
  ShouldLog(self._study_update_freq, study, trial)

(***************************************************************************)
(* Studies and their storages.  Missing is the value of an attribute the   *)
(* installed library version does not have: reading it raises              *)
(* AttributeError.                                                         *)
(***************************************************************************)
Missing == "<no such attribute>"

\* A storage: its class, the place it keeps the studies (location, "" for an
\* in-process store) and the attributes log_study reads: _url of a RedisStorage,
\* url of an RDBStorage, _backend.url of a _CachedStorage.
Storage(kind, location, attr) ==
  [ kind |-> kind, location |-> location,
    _url |-> IF attr = "_url" THEN location ELSE Missing,
    url |-> IF attr = "url" THEN location ELSE Missing,
    _backend_url |-> IF attr = "_backend.url" THEN location ELSE Missing ]

Storages ==
  { Storage("InMemoryStorage", "", ""),
    Storage("RedisStorage", "redis://host:6379", "_url"),
    Storage("_CachedStorage", "sqlite:///cached.db", "_backend.url"),
    Storage("RDBStorage", "sqlite:///study.db", "url"),
    Storage("DaskStorage", "tcp://scheduler:8786", "") }

\* The same storages under a library version that renamed the URL attribute.
SkewedStorages ==
  { Storage("RedisStorage", "redis://host:6379", ""),
    Storage("_CachedStorage", "sqlite:///cached.db", ""),
    Storage("RDBStorage", "sqlite:///study.db", "") }

StudyAttrs ==
  {"study_name", "direction", "directions", "system_attrs", "user_attrs",
   "_study_id", "_storage"}

\* A study before its first trial.
Study(multi, storage, attrs) ==
  [ study_name |-> "study-A", multi |-> multi, attrs |-> attrs,
    _storage |-> storage, _stop_flag |-> FALSE, trials |-> <<>> ]

\* The studies of a library version that has every attribute the callback
\* reads: every storage, single- and multi-objective.
Studies == {Study(m, st, StudyAttrs) : m \in BOOLEAN, st \in Storages}

\* The studies of a library version that lacks one of them: a storage without
\* its URL attribute, or a study without one of its attributes.
SkewedStudies ==
  {Study(FALSE, st, StudyAttrs) : st \in SkewedStorages}
    \cup {Study(FALSE, st, StudyAttrs \ {a}) :
            st \in {Storage("InMemoryStorage", "", ""),
                    Storage("RDBStorage", "sqlite:///study.db", "url")},
            a \in StudyAttrs}

(***************************************************************************)
(* The run: a namespace of paths.  An execution e carries the run, the     *)
(* paths written so far in this invocation (ops) and the exception (exc)   *)
(* that ended it, "" while none has.                                       *)
(***************************************************************************)
VisPath ==
  [k \in PlotKindSet |->
     CASE k = "contour" -> "visualizations/plot_contour"
       [] k = "edf" -> "visualizations/plot_edf"
       [] k = "parallel_coordinate" -> "visualizations/plot_parallel_coordinate"
       [] k = "param_importances" -> "visualizations/plot_param_importances"
       [] k = "pareto_front" -> "visualizations/plot_pareto_front"
       [] k = "slice" -> "visualizations/plot_slice"
       [] k = "intermediate_values" -> "visualizations/plot_intermediate_values"
       [] OTHER -> "visualizations/plot_optimization_history"]

DetailPaths ==
  {"study/study_name", "study/direction", "study/directions", "study/system_attrs",
   "study/user_attrs", "study/_study_id", "study/_storage"}
DescriptorPaths == {"study/storage_type", "study/storage_url", "study/study"}
Paths ==
  {"trials", "best", "study/distributions"} \cup DetailPaths \cup DescriptorPaths
    \cup {VisPath[k] : k \in PlotKindSet}

EmptyRun == [p \in Paths |-> Absent]

Begin(run) ==
  [run |-> run, ops |-> <<>>, exc |-> "", plots |-> "unreached", study |-> "unreached"]

\* run[path] = x
Write(e, path, x) ==
  IF e.exc # "" THEN e
  ELSE [e EXCEPT !.run[path] = x, !.ops = Append(@, path)]

\* run[path].log(x): append to the series at path.
Log(e, path, x) ==
  IF e.exc # "" THEN e
  ELSE [e EXCEPT !.run[path] =
                   IF @ = Absent THEN List(<<x>>)
                   ELSE [@ EXCEPT !.items = Append(@, Item(NoKey, x))],
                 !.ops = Append(@, path)]

Raise(e, x) == IF e.exc # "" THEN e ELSE [e EXCEPT !.exc = x]

\* run[path] = <outcome of a call>: the exception propagates before the write.
WriteOutcome(e, path, r) ==
  IF r.exc # "" THEN Raise(e, r.exc) ELSE Write(e, path, r.val)

\* The value of study.<attr>, as the run stores it.
AttrValue(study, attr) ==
  CASE attr = "study_name" -> Leaf(study.study_name)
    [] attr = "_storage" -> Leaf(study._storage.kind)
    [] OTHER -> Leaf(attr)

\* run[path] = study.<attr>; Study.direction is not available on a
\* multi-objective study.
WriteAttr(e, path, study, attr) ==
  IF attr \notin study.attrs THEN Raise(e, "AttributeError")
  ELSE IF attr = "direction" /\ study.multi THEN Raise(e, "RuntimeError")
  ELSE Write(e, path, AttrValue(study, attr))

\* run[path] = <a str attribute of the storage>
WriteStr(e, path, x) ==
  IF x = Missing THEN Raise(e, "AttributeError") ELSE Write(e, path, Leaf(x))

\* try: <body> except AttributeError: pass
ExceptAttributeError(e) == IF e.exc = "AttributeError" THEN [e EXCEPT !.exc = ""] ELSE e

(***************************************************************************)
(* The free functions the callback calls.                                  *)
(***************************************************************************)
log_study_details(e, study) ==
  LET a == WriteAttr(e, "study/study_name", study, "study_name")
      b == WriteAttr(a, "study/direction", study, "direction")
      c == WriteAttr(b, "study/directions", study, "directions")
      d == WriteAttr(c, "study/system_attrs", study, "system_attrs")
      f == WriteAttr(d, "study/user_attrs", study, "user_attrs")
      g == WriteAttr(f, "study/_study_id", study, "_study_id")
      h == WriteAttr(g, "study/_storage", study, "_storage")
  IN  IF f.exc # "" THEN f ELSE ExceptAttributeError(h)

\* File.as_pickle(study): the pickled study, which unpickles to the study named.
as_pickle(study) == [t |-> "pickle", v |-> study.study_name, items |-> <<>>]

\* A variant of StorageDescriptor that reads the URL of a cache-wrapped store
\* from the wrapper itself instead of the store it wraps.
DescriptorReadsWrapperUrl(e, study) ==
  LET st == study._storage IN
  IF st.kind = "InMemoryStorage"
    THEN LET a == WriteAttr(e, "study/study_name", study, "study_name")
             b == Write(a, "study/storage_type", Leaf("InMemoryStorage"))
         IN  Write(b, "study/study", as_pickle(study))
    ELSE LET a == WriteAttr(e, "study/study_name", study, "study_name") IN
      CASE st.kind = "RedisStorage" ->
             WriteStr(Write(a, "study/storage_type", Leaf("RedisStorage")),
                      "study/storage_url", st._url)
        [] st.kind \in {"_CachedStorage", "RDBStorage"} ->
             WriteStr(Write(a, "study/storage_type", Leaf("RDBStorage")),
                      "study/storage_url", st.url)
        [] OTHER ->
             Write(Write(a, "study/storage_type", Leaf("unknown storage type")),
                   "study/storage_url", Leaf("unknown storage url"))

\* The branches of log_study after study._storage has been read.
StorageDescriptor(e, study) ==
  LET st == study._storage IN
  IF st.kind = "InMemoryStorage"
    THEN LET a == WriteAttr(e, "study/study_name", study, "study_name")
             b == Write(a, "study/storage_type", Leaf("InMemoryStorage"))
         IN  Write(b, "study/study", as_pickle(study))
    ELSE LET a == WriteAttr(e, "study/study_name", study, "study_name") IN
      CASE st.kind = "RedisStorage" ->
             WriteStr(Write(a, "study/storage_type", Leaf("RedisStorage")),
                      "study/storage_url", st._url)
        [] st.kind = "_CachedStorage" ->
             WriteStr(Write(a, "study/storage_type", Leaf("RDBStorage")),
                      "study/storage_url", st._backend_url)
        [] st.kind = "RDBStorage" ->
             WriteStr(Write(a, "study/storage_type", Leaf("RDBStorage")),
                      "study/storage_url", st.url)
        [] OTHER ->
             Write(Write(a, "study/storage_type", Leaf("unknown storage type")),
                   "study/storage_url", Leaf("unknown storage url"))

log_study(e, study) ==
  IF e.exc # "" THEN e
  ELSE IF "_storage" \notin study.attrs THEN e
  ELSE ExceptAttributeError(StorageDescriptor(e, study))

\* The plots log_plots writes, in its order, for a supported backend.
PlotDue(k, study, backend, flags) ==
  /\ Truthy(flags[k])
  /\ k = "param_importances" => Len(study.trials) > 1
  /\ k = "pareto_front" => study.multi /\ backend = PyStr("plotly")
  /\ k = "intermediate_values" =>
       \E j \in 1..Len(study.trials) : study.trials[j].intermediate_values.items # <<>>

RECURSIVE PlotLoop(_, _, _, _, _)
PlotLoop(e, kinds, study, backend, flags) ==
  IF kinds = <<>> THEN e
  ELSE PlotLoop(IF PlotDue(Head(kinds), study, backend, flags)
                  THEN Write(e, VisPath[Head(kinds)], Leaf("html"))
                  ELSE e,
                Tail(kinds), study, backend, flags)

\* vis.is_available is the function itself, not its result: always true.
log_plots(e, study, backend, flags) ==
  IF e.exc # "" THEN e
  ELSE IF backend \in {PyStr("matplotlib"), PyStr("plotly")}
    THEN PlotLoop(e, PlotKinds, study, backend, flags)
    ELSE Raise(e, "NotImplementedError")

\* optuna.load_study(study_name, storage): the study of that name kept at that
\* place, when there is one.
load_study(name, url, study) ==
  IF name.t = "leaf" /\ url.t = "leaf" /\ name.v = study.study_name
     /\ study._storage.location # "" /\ url.v = study._storage.location
    THEN "reconnected"
    ELSE "load_study failed"

\* get_pickle(run, path): download and unpickle.
get_pickle(run, path, study) ==
  IF run[path].t = "pickle" /\ run[path].v = study.study_name
    THEN "unpickled"
    ELSE "get_pickle failed"

\* A variant of load_study_from_run without the in-memory branch.
LoadAlwaysReconnects(run, study) ==
  IF run["study/storage_type"] = Absent THEN "fetch failed"
  ELSE IF run["study/study_name"] = Absent \/ run["study/storage_url"] = Absent
    THEN "fetch failed"
  ELSE load_study(run["study/study_name"], run["study/storage_url"], study)

\* What load_study_from_run returns (how the study was re-opened) or how it fails.
load_study_from_run(run, study) ==
  IF run["study/storage_type"] = Absent THEN "fetch failed"
  ELSE IF run["study/storage_type"] = Leaf("InMemoryStorage")
    THEN get_pickle(run, "study/study", study)
  ELSE IF run["study/study_name"] = Absent \/ run["study/storage_url"] = Absent
    THEN "fetch failed"
  ELSE load_study(run["study/study_name"], run["study/storage_url"], study)

(***************************************************************************)
(* NeptuneCallback.                                                        *)
(***************************************************************************)
\* The argument groups (plot frequency, study frequency, backend, plot switches)
\* that depart from the defaults of __init__.
Departures(pf, sf, be, fl) ==
  {g \in {"plots", "study", "backend", "flags"} :
     \/ g = "plots" /\ pf # PyInt(1)
     \/ g = "study" /\ sf # PyInt(1)
     \/ g = "backend" /\ be # PyStr("plotly")
     \/ g = "flags" /\ fl # AllPlots}

\* The constructions explored: any two argument groups vary together, the
\* other two keep their defaults.
Explored(pf, sf, be, fl) ==
  \E g1, g2 \in {"plots", "study", "backend", "flags"} :
    Departures(pf, sf, be, fl) \subseteq {g1, g2}

_log_trial(e, trial) ==
  IF e.exc # "" THEN e
  ELSE LET r == log_all_trials(<<trial>>) IN
    WriteOutcome(e, "trials", IF r.exc # "" THEN r ELSE Ok(stringify_keys(r.val)))

_log_trial_distributions(e, trial) == Log(e, "study/distributions", trial.distributions)

_log_best_trials(e, study) ==
  IF e.exc # "" THEN e
  ELSE LET r == log_best_trials(study) IN
    WriteOutcome(e, "best", IF r.exc # "" THEN r ELSE Ok(stringify_keys(r.val)))

_log_study_details(e, study, trial) ==
  IF e.exc # "" THEN e
  ELSE IF trial._trial_id = 0 THEN log_study_details(e, study) ELSE e

\* The outcome of a gate, as the invocation records it.
GateOutcome(g) == IF g.exc # "" THEN "raised" ELSE IF g.fire THEN "fired" ELSE "skipped"

\* A variant of _log_plots that renders on every trial, whatever the gate says.
PlotsOnEveryTrial(self, e, study, trial) ==
  IF e.exc # "" THEN e
  ELSE LET g == _should_log_plots(self, study, trial)
           a == [e EXCEPT !.plots = GateOutcome(g)]
       IN  IF g.exc # "" THEN Raise(a, g.exc)
           ELSE log_plots(a, study, self._vis_backend, self.flags)

_log_plots(self, e, study, trial) ==
  IF e.exc # "" THEN e
  ELSE LET g == _should_log_plots(self, study, trial)
           a == [e EXCEPT !.plots = GateOutcome(g)]
       IN  IF g.exc # "" THEN Raise(a, g.exc)
           ELSE IF g.fire THEN log_plots(a, study, self._vis_backend, self.flags)
           ELSE a

_log_study(self, e, study, trial) ==
  IF e.exc # "" THEN e
  ELSE LET g == _should_log_study(self, study, trial)
           a == [e EXCEPT !.study = GateOutcome(g)]
       IN  IF g.exc # "" THEN Raise(a, g.exc)
           ELSE IF g.fire THEN log_study(a, study)
           ELSE a

\* NeptuneCallback.__call__: the six steps, in order.
__call__(self, e, study, trial) ==
  LET a == _log_trial(e, trial)
      b == _log_trial_distributions(a, trial)
      c == _log_best_trials(b, study)
      d == _log_study_details(c, study, trial)
      f == _log_plots(self, d, study, trial)
  IN  _log_study(self, f, study, trial)

(***************************************************************************)
(* State.                                                                  *)
(***************************************************************************)
VARIABLES
  pc,      \* "init", "construct_failed", "ready", "raised" or "loaded"
  self,    \* the fields of the callback
  study,   \* the Optuna study
  run,     \* the Neptune run under the base namespace
  calls,   \* one record per invocation of the callback, oldest first
  loaded   \* the outcome of load_study_from_run, "" before it is called

vars == <<pc, self, study, run, calls, loaded>>

Init ==
  /\ pc = "init"
  /\ self = NoCallback
  /\ study \in Studies
  /\ run = EmptyRun
  /\ calls = <<>>
  /\ loaded = ""

\* NeptuneCallback.__init__: a failed verify_type raises TypeError and leaves no
\* callback behind.
Construct ==
  /\ pc = "init"
  /\ \E pf \in FreqArgs, sf \in FreqArgs, be \in BackendArgs, fl \in FlagArgs :
       /\ Explored(pf, sf, be, fl)
       /\ IF InitVerifies(pf, sf, be, fl)
            THEN /\ self' = [ _vis_backend |-> be, _plots_update_freq |-> pf,
                              _study_update_freq |-> sf, flags |-> fl ]
                 /\ pc' = "ready"
            ELSE /\ self' = self
                 /\ pc' = "construct_failed"
  /\ UNCHANGED <<study, run, calls, loaded>>

\* The engine finishes a trial and invokes the callback with it; an exception
\* of the callback ends the optimisation.
Call ==
  /\ pc = "ready"
  /\ Len(study.trials) < MaxTrials
  /\ \E in \in TrialInputs :
       LET trial == FrozenTrial(Len(study.trials), in, study.multi)
           grown == [study EXCEPT !.trials = Append(@, trial)]
       IN  \E e \in {__call__(self, Begin(run), grown, trial)} :
           /\ study' = grown
           /\ run' = e.run
           /\ calls' = Append(calls,
                              [ id |-> trial._trial_id, stop |-> study._stop_flag,
                                ops |-> e.ops, exc |-> e.exc,
                                plots |-> e.plots, study |-> e.study ])
           /\ pc' = IF e.exc = "" THEN "ready" ELSE "raised"
  /\ UNCHANGED <<self, loaded>>

\* The engine is asked to stop (Study.stop()).
Stop ==
  /\ pc = "ready"
  /\ ~study._stop_flag
  /\ study' = [study EXCEPT !._stop_flag = TRUE]
  /\ UNCHANGED <<pc, self, run, calls, loaded>>

\* load_study_from_run on the run, once the optimisation is over.
LoadStudy ==
  /\ pc \in {"ready", "raised"}
  /\ loaded' = load_study_from_run(run, study)
  /\ pc' = "loaded"
  /\ UNCHANGED <<self, study, run, calls>>

Next == Construct \/ Call \/ Stop \/ LoadStudy

Spec == Init /\ [][Next]_vars

\* The same callback against a library version that lacks an attribute.
InitSkew ==
  /\ pc = "init"
  /\ self = NoCallback
  /\ study \in SkewedStudies
  /\ run = EmptyRun
  /\ calls = <<>>
  /\ loaded = ""

SpecSkew == InitSkew /\ [][Next]_vars

(***************************************************************************)
(* Properties.                                                             *)
(***************************************************************************)
Supported == {PyStr("plotly"), PyStr("matplotlib")}
Constructed == pc \in {"ready", "raised", "loaded"}
Stride(freq) == freq.ty = "int" /\ freq.n >= 1

\* The paths under visualizations/ an invocation wrote.
PlotsWritten(c) ==
  {c.ops[j] : j \in 1..Len(c.ops)} \cap {VisPath[k] : k \in PlotKindSet}
Wrote(c, path) == \E j \in 1..Len(c.ops) : c.ops[j] = path

\* The documented policy: what a gate of frequency freq does on invocation c.
GateAsDocumented(freq, c, outcome) ==
  /\ freq = PyStr("never") => outcome = "skipped"
  /\ Stride(freq) => outcome = (IF c.id % freq.n = 0 THEN "fired" ELSE "skipped")
  /\ freq = PyStr("last") => outcome = (IF c.stop THEN "fired" ELSE "skipped")

\* C1: each gate a call reaches gives the result of its own frequency: never
\* fires for "never", fires iff id mod N = 0 for a stride N >= 1 whatever the
\* stop flag, fires iff the stop flag is set for "last" whatever the id.
C1_GatesFollowOwnFrequency ==
  \A j \in 1..Len(calls) :
    /\ calls[j].plots # "unreached" =>
         GateAsDocumented(self._plots_update_freq, calls[j], calls[j].plots)
    /\ calls[j].study # "unreached" =>
         GateAsDocumented(self._study_update_freq, calls[j], calls[j].study)

\* C1 witness: on trial 1 with the stop flag set, a stride of 2 skips the plots
\* while "last" fires the study update.
C1_Witness ==
  /\ self._plots_update_freq = PyInt(2)
  /\ self._study_update_freq = PyStr("last")
  /\ \E j \in 1..Len(calls) :
       /\ calls[j].id = 1 /\ calls[j].stop
       /\ calls[j].plots = "skipped" /\ calls[j].study = "fired"

\* The frequency values the data model permits.
Permitted(freq) ==
  \/ Stride(freq)
  \/ freq \in {PyStr("never"), PyStr("last"), PyNone}

\* C2: no constructed callback evaluates a gate with a frequency outside
\* {integer >= 1, "never", "last", unset}: such a value fails at construction.
C2_InvalidFrequencyFailsAtConstruction ==
  \A j \in 1..Len(calls) :
    /\ calls[j].plots # "unreached" => Permitted(self._plots_update_freq)
    /\ calls[j].study # "unreached" => Permitted(self._study_update_freq)

\* The plot kinds that need nothing but their switch.
Unconditional == {"contour", "edf", "parallel_coordinate", "slice", "optimization_history"}

\* C3: single-objective study, plot stride N, study frequency "never", a
\* supported backend: every invocation j-1 writes its trial under trials;
\* the enabled plots are written on the invocations with id mod N = 0 and no
\* plot on the others; the storage descriptor is never written.
C3_PlotsOnStrideStudyNever ==
  ( /\ Constructed /\ ~study.multi
    /\ Stride(self._plots_update_freq)
    /\ self._study_update_freq = PyStr("never")
    /\ self._vis_backend \in Supported )
  => /\ \A j \in 1..Len(calls) :
          LET c == calls[j] IN
          /\ c.id = j - 1
          /\ c.exc = ""
          /\ c.ops[1] = "trials"
          /\ IF c.id % self._plots_update_freq.n = 0
               THEN /\ \A k \in Unconditional :
                         Truthy(self.flags[k]) <=> VisPath[k] \in PlotsWritten(c)
                    /\ VisPath["pareto_front"] \notin PlotsWritten(c)
               ELSE PlotsWritten(c) = {}
          /\ \A p \in DescriptorPaths : ~Wrote(c, p)
     /\ calls # <<>> =>
          \E j \in 1..Len(run["trials"].items) :
            run["trials"].items[j].k = PathKey("trials/{}/value", Len(calls) - 1)
     /\ \A p \in DescriptorPaths : run[p] = Absent

\* C3 witness: three trials, stride 2, every plot enabled: plots on trials 0
\* and 2 and none on trial 1.
C3_Witness ==
  /\ ~study.multi /\ self._plots_update_freq = PyInt(2)
  /\ self._study_update_freq = PyStr("never") /\ self.flags = AllPlots
  /\ self._vis_backend = PyStr("plotly")
  /\ Len(calls) = 3
  /\ PlotsWritten(calls[1]) # {} /\ PlotsWritten(calls[2]) = {}
  /\ PlotsWritten(calls[3]) # {}
  /\ run["study/storage_type"] = Absent

\* The study's trials as they were when invocation c ran.
TrialsAt(c) == SubSeq(study.trials, 1, c.id + 1)

\* C4: on a multi-objective study with the matplotlib backend and the Pareto
\* plot enabled, an invocation at which the plot policy fires writes every
\* other enabled plot whose condition holds, and not the Pareto front.
C4_OtherPlotsRenderOnMultiObjective ==
  \A j \in 1..Len(calls) :
    LET c == calls[j] IN
    ( /\ study.multi /\ self._vis_backend = PyStr("matplotlib")
      /\ Truthy(self.flags["pareto_front"])
      /\ \/ Stride(self._plots_update_freq) /\ c.id % self._plots_update_freq.n = 0
         \/ self._plots_update_freq = PyStr("last") /\ c.stop )
    => /\ VisPath["pareto_front"] \notin PlotsWritten(c)
       /\ \A k \in Unconditional : Truthy(self.flags[k]) => VisPath[k] \in PlotsWritten(c)
       /\ (Truthy(self.flags["param_importances"]) /\ c.id >= 1)
            => VisPath["param_importances"] \in PlotsWritten(c)
       /\ ( /\ Truthy(self.flags["intermediate_values"])
            /\ \E m \in 1..(c.id + 1) : TrialsAt(c)[m].intermediate_values.items # <<>> )
            => VisPath["intermediate_values"] \in PlotsWritten(c)

\* The descriptor the resolver is documented to give for a storage.
DocumentedType(st) ==
  CASE st.kind = "InMemoryStorage" -> "InMemoryStorage"
    [] st.kind = "RedisStorage" -> "RedisStorage"
    [] st.kind \in {"_CachedStorage", "RDBStorage"} -> "RDBStorage"
    [] OTHER -> "unknown storage type"
DocumentedUrl(st) ==
  CASE st.kind = "InMemoryStorage" -> Absent
    [] st.kind \in {"RedisStorage", "_CachedStorage", "RDBStorage"} -> Leaf(st.location)
    [] OTHER -> Leaf("unknown storage url")

\* The number of times an invocation wrote a path.
Times(c, path) == Cardinality({j \in 1..Len(c.ops) : c.ops[j] = path})

\* C5: an invocation whose study policy fired does not raise and leaves
\* exactly the documented descriptor: one storage_type, the study name, the
\* URL of the store (of the wrapped store for a cache wrapper, the literal
\* "unknown storage url" for an unknown one), and for in-memory storage the
\* pickled study and no URL.
C5_DescriptorPerBackend ==
  \A j \in 1..Len(calls) :
    calls[j].study = "fired" =>
      /\ calls[j].exc = ""
      /\ Times(calls[j], "study/storage_type") = 1
      /\ Wrote(calls[j], "study/study_name")
      /\ run["study/study_name"] = Leaf(study.study_name)
      /\ run["study/storage_type"] = Leaf(DocumentedType(study._storage))
      /\ run["study/storage_url"] = DocumentedUrl(study._storage)
      /\ Wrote(calls[j], "study/storage_url") <=> study._storage.kind # "InMemoryStorage"
      /\ IF study._storage.kind = "InMemoryStorage"
           THEN Wrote(calls[j], "study/study") /\ run["study/study"] = as_pickle(study)
           ELSE run["study/study"] = Absent

\* C5 witness: a cache-wrapped store logged as RDBStorage with the URL of the
\* store it wraps.
C5_Witness ==
  /\ study._storage.kind = "_CachedStorage"
  /\ \E j \in 1..Len(calls) : calls[j].study = "fired"
  /\ run["study/storage_type"] = Leaf("RDBStorage")
  /\ run["study/storage_url"] = Leaf("sqlite:///cached.db")

RECURSIVE AllKeysStr(_)
\* Every key of every mapping in o, inside mappings and inside lists, is a str.
AllKeysStr(o) ==
  IF o.t \in {"dict", "list"}
    THEN \A j \in 1..Len(o.items) :
           /\ o.t = "dict" => o.items[j].k.kt = "str"
           /\ AllKeysStr(o.items[j].val)
    ELSE TRUE

\* C6: what the callback stores under trials and best has only str keys, at
\* every depth, also in the mappings inside the params list.
C6_EveryKeyIsStr == AllKeysStr(run["trials"]) /\ AllKeysStr(run["best"])

\* C7: no invocation of a callback whose backend name is not a supported one
\* completes normally: it fails at construction or on the invocation.
C7_UnsupportedBackendNeverCompletes ==
  \A j \in 1..Len(calls) :
    (self._vis_backend.ty = "str" /\ self._vis_backend \notin Supported)
      => calls[j].exc # ""

\* The path log_study_details gives each attribute of the study.
DetailPathOf ==
  [a \in StudyAttrs |->
     CASE a = "study_name" -> "study/study_name"
       [] a = "direction" -> "study/direction"
       [] a = "directions" -> "study/directions"
       [] a = "system_attrs" -> "study/system_attrs"
       [] a = "user_attrs" -> "study/user_attrs"
       [] a = "_study_id" -> "study/_study_id"
       [] OTHER -> "study/_storage"]

\* The storage has the URL attribute log_study reads for its class.
HasUrlAttribute(st) ==
  CASE st.kind = "RedisStorage" -> st._url # Missing
    [] st.kind = "_CachedStorage" -> st._backend_url # Missing
    [] st.kind = "RDBStorage" -> st.url # Missing
    [] OTHER -> FALSE

\* C8: with an attribute missing on the study or its storage, no invocation
\* fails on it, the first invocation writes exactly the study details whose
\* attribute is present, and a study update writes the name, the storage type
\* and the storage URL whose attributes are present.
C8_OnlyTheMissingFieldIsOmitted ==
  \A j \in 1..Len(calls) :
    LET c == calls[j] IN
    /\ c.exc # "AttributeError"
    /\ c.id = 0 =>
         \A a \in StudyAttrs \ {"study_name"} :
           a \in study.attrs <=> Wrote(c, DetailPathOf[a])
    /\ (c.id = 0 /\ "study_name" \in study.attrs) => Wrote(c, "study/study_name")
    /\ c.study = "fired" =>
         /\ "study_name" \in study.attrs => Wrote(c, "study/study_name")
         /\ "_storage" \in study.attrs => Wrote(c, "study/storage_type")
         /\ ("_storage" \in study.attrs /\ HasUrlAttribute(study._storage))
              => Wrote(c, "study/storage_url")

\* The ops of an invocation are the three unconditional writes, then study
\* details, then plots, then the descriptor (which repeats the study name).
InFixedOrder(c) ==
  /\ Len(c.ops) >= 3
  /\ SubSeq(c.ops, 1, 3) = <<"trials", "study/distributions", "best">>
  /\ \E a \in 3..Len(c.ops) : \E b \in a..Len(c.ops) :
       /\ \A k \in 4..a : c.ops[k] \in DetailPaths
       /\ \A k \in (a + 1)..b : c.ops[k] \in {VisPath[x] : x \in PlotKindSet}
       /\ \A k \in (b + 1)..Len(c.ops) :
            c.ops[k] \in DescriptorPaths \cup {"study/study_name"}
       /\ a > 3 => c.id = 0

\* C9: every invocation writes trials, study/distributions and best, in that
\* order and whatever the frequencies, then study details (only for trial 0),
\* plots and the descriptor; study/distributions holds one entry per invocation.
C9_EveryInvocationInFixedOrder ==
  /\ \A j \in 1..Len(calls) : InFixedOrder(calls[j])
  /\ Len(run["study/distributions"].items) = Len(calls)

\* The part of C9 that the code keeps: the same on single-objective studies.
FixedOrderOnSingleObjective ==
  ~study.multi =>
    /\ \A j \in 1..Len(calls) : InFixedOrder(calls[j])
    /\ Len(run["study/distributions"].items) = Len(calls)
    /\ \A j \in 1..Len(calls) : Wrote(calls[j], "study/direction") <=> calls[j].id = 0

\* The study policy fired in some invocation and the study was then loaded
\* back from the run.
LoadedAfterStudyUpdate ==
  /\ pc = "loaded"
  /\ \E j \in 1..Len(calls) : calls[j].study = "fired"

====
